---------------------------- MODULE Spec2Model ----------------------------
(***************************************************************************)
(* A model of the Aqua compiler back end: symbol resolution                *)
(* (SymbolResolution), code generation (CodeGenerator, writing to a        *)
(* CodeEmitter) and the early expression compiler (compile / genCode).     *)
(*                                                                         *)
(* An AST node is a record with one field per attribute the code reads.    *)
(* An attribute that JavaScript leaves undefined is the empty sequence     *)
(* <<>>; one that is set is a one-element sequence <<v>>.  Objects that    *)
(* the code shares by reference (symbol tables, function nodes) are kept   *)
(* in a heap (tables) or named by their path of child indices.             *)
(***************************************************************************)
EXTENDS Integers, Sequences, FiniteSets

VARIABLES
    pc,       \* where the driver is: "parsed", "resolved", "resolveFailed",
              \* "generated", "generateFailed", "compiled", "compileFailed"
    ast,      \* the AST root, annotated in place by the passes
    tables,   \* heap of SymbolTable objects, indexed by table id
    trace,    \* history: the node handlers the resolver has invoked, in order
    error,    \* <<>> or <<e>>: the Error that aborted the running pass
    emitter,  \* the CodeEmitter: [lines, depth]
    codegen,  \* the CodeGenerator's fields
    output    \* <<>> or <<s>>: the string returned by compile

vars == <<pc, ast, tables, trace, error, emitter, codegen, output>>

----------------------------------------------------------------------------
(* Bounds of the model. *)

\* Statements (leaves, control statements and function declarations each
\* count one) in a program of the control-flow family.
MaxCtlWeight == 4

\* Statements in a program of the declaration/assignment family.
MaxSymWeight == 3

\* Statements in a program of the name-use family.
MaxUseWeight == 3

\* AST nodes in a program given to compile.
MaxOldWeight == 6

----------------------------------------------------------------------------
(* Small helpers over sequences. *)

Range(s) == { s[i] : i \in 1..Len(s) }

Reverse(s) == [ i \in 1..Len(s) |-> s[Len(s) + 1 - i] ]

IsSet(opt) == Len(opt) > 0

RECURSIVE Flatten(_)
Flatten(ss) == IF Len(ss) = 0 THEN <<>> ELSE Head(ss) \o Flatten(Tail(ss))

----------------------------------------------------------------------------
(* AST nodes. *)

Node(t) ==
    [ nodeType |-> t, name |-> "", value |-> 0, text |-> <<>>, opcode |-> "",
      args |-> <<>>, numItemsAdded |-> <<>>, numItemsRemoved |-> <<>>,
      children |-> <<>>, body |-> <<>>, ifBlock |-> <<>>, elseBlock |-> <<>>,
      initializer |-> <<>>, assignee |-> <<>>, functionArgs |-> <<>>,
      params |-> <<>>, symbol |-> <<>>, symbols |-> <<>>, scope |-> <<>>,
      controlStatementId |-> <<>> ]

Number(v) == [Node("number") EXCEPT !.value = v]

Block(stmts) == [Node("block") EXCEPT !.children = stmts]

ExprStatement(e) == [Node("expr-statement") EXCEPT !.children = <<e>>]

ReturnStatement(e) == [Node("return-statement") EXCEPT !.children = <<e>>]

AccessVariable(n) == [Node("access-variable") EXCEPT !.name = n]

DeclareVariable(n, init) ==
    [Node("declare-variable") EXCEPT !.name = n, !.initializer = init]

DeclareConstant(n, init) ==
    [Node("declare-constant") EXCEPT !.name = n, !.initializer = init]

Assignment(target, e) ==
    [Node("assignment-statement") EXCEPT !.assignee = <<target>>, !.children = <<e>>]

IfStatement(cond, thenBlock, elseOpt) ==
    [Node("if-statement") EXCEPT
        !.children = <<cond>>, !.ifBlock = <<thenBlock>>, !.elseBlock = elseOpt]

WhileStatement(cond, b) ==
    [Node("while-statement") EXCEPT !.children = <<cond>>, !.body = <<b>>]

\* params is <<>> (no params attribute) or <<ps>>, ps the parameter names.
FunctionDeclaration(n, ps, b) ==
    [Node("function-declaration") EXCEPT !.name = n, !.params = <<ps>>, !.body = <<b>>]

FunctionCall(n, as) ==
    [Node("function-call") EXCEPT !.name = n, !.functionArgs = as]

----------------------------------------------------------------------------
(* SymbolTable: a table is [symbols, parent, offset]; parent is <<>> for   *)
(* the outermost table and <<id>> otherwise.                               *)

NoError == <<>>

Err(kind, n) == <<[kind |-> kind, name |-> n]>>

NewSymbolTable(tbls, offset, parent) ==
    Append(tbls, [symbols |-> <<>>, parent |-> parent, offset |-> offset])

isDefinedLocally(tbls, tid, n) ==
    \E i \in 1..Len(tbls[tid].symbols) : tbls[tid].symbols[i].name = n

getNumSymbols(tbls, tid) == Len(tbls[tid].symbols)

NewSymbol(tbls, tid, n, type) ==
    [ name |-> n, type |-> type,
      position |-> tbls[tid].offset + getNumSymbols(tbls, tid) + 1,
      isGlobal |-> ~IsSet(tbls[tid].parent) ]

\* define: [tables, symbol, error]
define(tbls, tid, n, type) ==
    IF isDefinedLocally(tbls, tid, n)
    THEN [tables |-> tbls, symbol |-> <<>>, error |-> Err("DuplicateDefinition", n)]
    ELSE LET s == NewSymbol(tbls, tid, n, type)
         IN [ tables |-> [tbls EXCEPT ![tid].symbols = Append(@, s)],
              symbol |-> <<s>>, error |-> NoError ]

RECURSIVE get(_, _, _)
get(tbls, tid, n) ==
    IF isDefinedLocally(tbls, tid, n)
    THEN LET i == CHOOSE i \in 1..Len(tbls[tid].symbols) : tbls[tid].symbols[i].name = n
         IN <<tbls[tid].symbols[i]>>
    ELSE IF IsSet(tbls[tid].parent) THEN get(tbls, tbls[tid].parent[1], n)
    ELSE <<>>

----------------------------------------------------------------------------
(* SymbolResolution.  The resolver state st is [tables, trace, error]; a   *)
(* thrown Error is st.error, and nothing runs once it is set.              *)

Threw(st) == IsSet(st.error)

Throw(st, e) == [st EXCEPT !.error = e]

\* The history of handler calls: which handler ran, on which name, against
\* which table, whether it returned, and the symbol it left on the node.
Logged(st, node, tid, ok) ==
    [st EXCEPT !.trace = Append(@,
        [ handler |-> node.nodeType,
          name |-> IF IsSet(node.assignee) THEN node.assignee[1].name ELSE node.name,
          assignee |-> IF IsSet(node.assignee) THEN node.assignee[1].nodeType ELSE "",
          table |-> tid, ok |-> ok, symbol |-> node.symbol ])]

RECURSIVE internalResolveSymbols(_, _, _)
RECURSIVE ResolveChildren(_, _, _)
RECURSIVE nodeHandlers(_, _, _)

\* A variant that keeps the scope a node already carries instead of
\* allocating a new one.
Handle_function_declaration_keepScope(node, tid, st) ==
    IF IsSet(node.scope)
    THEN LET r == internalResolveSymbols(node.body[1], node.scope[1],
                                         Logged(st, node, tid, TRUE))
         IN [node |-> [node EXCEPT !.body = <<r.node>>], st |-> r.st]
    ELSE LET tbls == NewSymbolTable(st.tables, 0, <<tid>>)
             localSymbolTable == Len(tbls)
             scoped == [node EXCEPT !.scope = <<localSymbolTable>>]
             r == internalResolveSymbols(node.body[1], localSymbolTable,
                                         Logged([st EXCEPT !.tables = tbls], node, tid, TRUE))
         IN [node |-> [scoped EXCEPT !.body = <<r.node>>], st |-> r.st]

Handle_function_declaration(node, tid, st) ==
    LET tbls == NewSymbolTable(st.tables, 0, <<tid>>)
        localSymbolTable == Len(tbls)
        scoped == [node EXCEPT !.scope = <<localSymbolTable>>]
        r == internalResolveSymbols(node.body[1], localSymbolTable,
                                    Logged([st EXCEPT !.tables = tbls], node, tid, TRUE))
    IN [node |-> [scoped EXCEPT !.body = <<r.node>>], st |-> r.st]

Handle_declare(node, tid, st, type) ==
    IF isDefinedLocally(st.tables, tid, node.name)
    THEN [ node |-> node,
           st |-> Throw(Logged(st, node, tid, FALSE), Err("DuplicateDefinition", node.name)) ]
    ELSE LET d == define(st.tables, tid, node.name, type)
         IN IF IsSet(d.error)
            THEN [node |-> node, st |-> Throw(Logged(st, node, tid, FALSE), d.error)]
            ELSE [ node |-> [node EXCEPT !.symbol = d.symbol],
                   st |-> Logged([st EXCEPT !.tables = d.tables],
                                 [node EXCEPT !.symbol = d.symbol], tid, TRUE) ]

Handle_declare_variable(node, tid, st) == Handle_declare(node, tid, st, "Variable")

Handle_declare_constant(node, tid, st) == Handle_declare(node, tid, st, "Constant")

Handle_access_variable(node, tid, st) ==
    LET symbol == get(st.tables, tid, node.name)
    IN IF ~IsSet(symbol)
       THEN [ node |-> node,
              st |-> Throw(Logged(st, node, tid, FALSE), Err("UndeclaredName", node.name)) ]
       ELSE [ node |-> [node EXCEPT !.symbol = symbol],
              st |-> Logged(st, [node EXCEPT !.symbol = symbol], tid, TRUE) ]

Handle_assignment_statement(node, tid, st) ==
    IF node.assignee[1].nodeType # "access-variable"
    THEN [node |-> node, st |-> Throw(Logged(st, node, tid, FALSE), Err("NotAnLvalue", ""))]
    ELSE LET symbol == get(st.tables, tid, node.assignee[1].name)
         IN IF ~IsSet(symbol)
            THEN [ node |-> node,
                   st |-> Throw(Logged(st, node, tid, FALSE),
                                Err("UndeclaredName", node.assignee[1].name)) ]
            ELSE IF symbol[1].type # "Variable"
            THEN [ node |-> node,
                   st |-> Throw(Logged(st, node, tid, FALSE),
                                Err("AssignToConstant", symbol[1].name)) ]
            ELSE [ node |-> [node EXCEPT !.symbol = symbol],
                   st |-> Logged(st, [node EXCEPT !.symbol = symbol], tid, TRUE) ]

\* The change the source's TODO asks for: the blocks get a table of their own.
Handle_if_statement_ownScope(node, tid, st) ==
    LET tbls == NewSymbolTable(st.tables, 0, <<tid>>)
        own == Len(tbls)
        r1 == internalResolveSymbols(node.ifBlock[1], own,
                                     Logged([st EXCEPT !.tables = tbls], node, tid, TRUE))
        n1 == [node EXCEPT !.ifBlock = <<r1.node>>]
    IN IF Threw(r1.st) \/ ~IsSet(node.elseBlock)
       THEN [node |-> n1, st |-> r1.st]
       ELSE LET r2 == internalResolveSymbols(node.elseBlock[1], own, r1.st)
            IN [node |-> [n1 EXCEPT !.elseBlock = <<r2.node>>], st |-> r2.st]

Handle_if_statement(node, tid, st) ==
    LET r1 == internalResolveSymbols(node.ifBlock[1], tid, Logged(st, node, tid, TRUE))
        n1 == [node EXCEPT !.ifBlock = <<r1.node>>]
    IN IF Threw(r1.st) \/ ~IsSet(node.elseBlock)
       THEN [node |-> n1, st |-> r1.st]
       ELSE LET r2 == internalResolveSymbols(node.elseBlock[1], tid, r1.st)
            IN [node |-> [n1 EXCEPT !.elseBlock = <<r2.node>>], st |-> r2.st]

nodeHandlers(node, tid, st) ==
    CASE node.nodeType = "function-declaration" -> Handle_function_declaration(node, tid, st)
      [] node.nodeType = "declare-variable" -> Handle_declare_variable(node, tid, st)
      [] node.nodeType = "declare-constant" -> Handle_declare_constant(node, tid, st)
      [] node.nodeType = "access-variable" -> Handle_access_variable(node, tid, st)
      [] node.nodeType = "assignment-statement" -> Handle_assignment_statement(node, tid, st)
      [] node.nodeType = "if-statement" -> Handle_if_statement(node, tid, st)
      [] OTHER -> [node |-> node, st |-> st]

ResolveChildren(nodes, tid, st) ==
    IF Len(nodes) = 0 \/ Threw(st)
    THEN [nodes |-> nodes, st |-> st]
    ELSE LET r1 == internalResolveSymbols(Head(nodes), tid, st)
             r2 == ResolveChildren(Tail(nodes), tid, r1.st)
         IN [nodes |-> <<r1.node>> \o r2.nodes, st |-> r2.st]

internalResolveSymbols(node, tid, st) ==
    LET rc == ResolveChildren(node.children, tid, st)
        n1 == [node EXCEPT !.children = rc.nodes]
    IN IF Threw(rc.st) THEN [node |-> n1, st |-> rc.st]
       ELSE nodeHandlers(n1, tid, rc.st)

\* resolveSymbols: a fresh global table, then the walk.  `heap` holds the
\* tables that exist when the pass starts (none before the first pass); the
\* pass allocates its tables after them and changes none of them.
resolveSymbols(node, heap) ==
    LET globalSymbolTable == NewSymbolTable(heap, 0, <<>>)
    IN internalResolveSymbols(node, Len(globalSymbolTable),
          [tables |-> globalSymbolTable, trace |-> <<>>, error |-> NoError])

----------------------------------------------------------------------------
(* Output lines.  A line of text is kept as its parts: the opcode, its     *)
(* integer operands, an operand or label name, and literal text.  A name   *)
(* built by a template string is kept as the template's parts:             *)
(* `${name}-cleanup` is [base |-> name, sfx |-> "-cleanup"], `else_${k}`   *)
(* is [base |-> "else_", id |-> <<k>>].  Inline comments are left out.     *)

Name(base, sfx, id) == [base |-> base, sfx |-> sfx, id |-> id]

FunctionLabel(n) == Name(n, "", <<>>)

CleanupLabel(n) == Name(n, "-cleanup", <<>>)

ProgramEnd == Name("program_end", "", <<>>)

ControlLabel(prefix, k) == Name(prefix, "", <<k>>)

Line(kind, op, as, nm, txt) ==
    [kind |-> kind, op |-> op, args |-> as, label |-> nm, text |-> txt]

Ins(op) == Line("instruction", op, <<>>, <<>>, <<>>)

InsN(op, n) == Line("instruction", op, <<n>>, <<>>, <<>>)

InsL(op, nm) == Line("instruction", op, <<>>, <<nm>>, <<>>)

InsT(op, txt) == Line("instruction", op, <<>>, <<>>, txt)

LabelLine(nm) == Line("label", "", <<>>, <<nm>>, <<>>)

SectionLine == Line("section", "", <<>>, <<>>, <<>>)

----------------------------------------------------------------------------
(* CodeEmitter.  The generator state g carries the emitter's fields        *)
(* (lines, depth), the generator's fields and the Error thrown, if any.    *)

add(g, line, pushed, popped) ==
    IF Threw(g) THEN g
    ELSE IF g.depth < popped THEN Throw(g, Err("StackUnderflow", line.op))
    ELSE [g EXCEPT !.lines = Append(@, line), !.depth = (@ + pushed) - popped]

label(g, nm) == IF Threw(g) THEN g ELSE [g EXCEPT !.lines = Append(@, LabelLine(nm))]

section(g) == IF Threw(g) THEN g ELSE [g EXCEPT !.lines = Append(@, SectionLine)]

resetStack(g) == IF Threw(g) THEN g ELSE [g EXCEPT !.depth = 0]

popAll(g) ==
    IF Threw(g) THEN g
    ELSE [g EXCEPT !.lines = @ \o [i \in 1..g.depth |-> Ins("pop")], !.depth = 0]

RECURSIVE addAll(_, _)
\* steps: a sequence of <<line, pushed, popped>>, added in order.
addAll(g, steps) ==
    IF Len(steps) = 0 THEN g
    ELSE addAll(add(g, Head(steps)[1], Head(steps)[2], Head(steps)[3]), Tail(steps))

----------------------------------------------------------------------------
(* CodeGenerator: the visitors.  Each takes the node and the generator     *)
(* state and gives back both, [node, g]: a visitor may annotate the node.  *)

MAX_SCRATCH == 255

BuiltinNames ==
    { "appGlobalPut", "appGlobalGet", "appGlobalDel", "appLocalPut", "appLocalGet",
      "appLocalDel", "btoi", "itob", "exit", "itxn_begin", "itxn_field", "itxn_submit" }

unquote(input) == SubSeq(input, 2, Len(input) - 1)

RECURSIVE internalGenerateCode(_, _)
RECURSIVE GenerateChildren(_, _)

Visit_number_post(node, g) ==
    [node |-> node, g |-> add(g, InsN("int", node.value), 1, 0)]

Visit_string_literal_post(node, g) ==
    [node |-> node, g |-> add(g, InsT("byte", <<"\"">> \o node.text \o <<"\"">>), 1, 0)]

Visit_operation_post(node, g) ==
    [ node |-> node,
      g |-> add(g, Line("instruction", node.opcode, node.args, <<>>, <<>>),
                IF IsSet(node.numItemsAdded) THEN node.numItemsAdded[1] ELSE 1,
                IF IsSet(node.numItemsRemoved) THEN node.numItemsRemoved[1] ELSE 2) ]

Visit_expr_statement_pre(node, g) == [node |-> node, g |-> resetStack(g)]

Visit_expr_statement_post(node, g) == [node |-> node, g |-> popAll(g)]

Visit_return_statement_pre(node, g) == [node |-> node, g |-> resetStack(g)]

\* A slip: a return inside a function returns from the subroutine at once.
Visit_return_statement_post_retsub(node, g) ==
    IF g.inFunction
    THEN [node |-> node, g |-> add(g, Ins("retsub"), 0, 0)]
    ELSE [node |-> node, g |-> add(g, Ins("return"), 0, 0)]

Visit_return_statement_post(node, g) ==
    IF g.inFunction
    THEN [node |-> node, g |-> add(g, InsL("b", CleanupLabel(g.curFunction[1].name)), 0, 0)]
    ELSE [node |-> node, g |-> add(g, Ins("return"), 0, 0)]

Visit_declare_variable_pre(node, g) == [node |-> node, g |-> resetStack(g)]

Visit_declare_variable_post(node, g) ==
    IF IsSet(node.initializer)
    THEN LET r == internalGenerateCode(node.initializer[1], g)
         IN [node |-> [node EXCEPT !.initializer = <<r.node>>], g |-> popAll(r.g)]
    ELSE [node |-> node, g |-> popAll(g)]

Visit_access_variable_post(node, g) ==
    IF ~IsSet(node.symbol)
    THEN [node |-> node, g |-> Throw(g, Err("TypeError", node.name))]
    ELSE IF node.symbol[1].isGlobal
    THEN [node |-> node, g |-> add(g, InsN("load", node.symbol[1].position), 1, 0)]
    ELSE [ node |-> node,
           g |-> addAll(g, << <<InsN("load", 0), 1, 0>>,
                              <<InsN("int", node.symbol[1].position), 1, 0>>,
                              <<Ins("+"), 2, 1>>,
                              <<Ins("loads"), 1, 1>> >>) ]

\* The store sequence of one symbol.
StoreSymbol(g, symbol) ==
    IF ~symbol.isGlobal
    THEN addAll(g, << <<InsN("int", symbol.position), 1, 0>>,
                      <<InsN("load", 0), 1, 0>>,
                      <<Ins("+"), 2, 1>>,
                      <<InsN("dig", 1), 1, 0>>,
                      <<Ins("stores"), 0, 2>> >>)
    ELSE addAll(g, << <<Ins("dup"), 1, 0>>,
                      <<InsN("store", symbol.position), 0, 1>> >>)

RECURSIVE StoreSymbols(_, _)
StoreSymbols(g, symbols) ==
    IF Len(symbols) = 0 THEN g
    ELSE StoreSymbols(StoreSymbol(g, Head(symbols)), Tail(symbols))

\* node.symbols is <<>> or <<list>>; reverse() reverses the list in place.
Visit_assignment_statement_post(node, g) ==
    IF IsSet(node.symbol)
    THEN [node |-> node, g |-> StoreSymbol(g, node.symbol[1])]
    ELSE IF IsSet(node.symbols)
    THEN [ node |-> [node EXCEPT !.symbols = <<Reverse(node.symbols[1])>>],
           g |-> StoreSymbols(g, Reverse(node.symbols[1])) ]
    ELSE [node |-> node, g |-> Throw(g, Err("NoAssignmentTarget", ""))]

\* A slip: the labels after the first are named by the generator's counter,
\* which a nested control statement has advanced, not by the node's id.
Visit_if_statement_post_counter(node, g) ==
    LET k == g.controlStatementId + 1
        stamped == [node EXCEPT !.controlStatementId = <<k>>]
        g1 == add([g EXCEPT !.controlStatementId = k],
                  InsL("bz", ControlLabel("else_", stamped.controlStatementId[1])), 0, 1)
        r1 == internalGenerateCode(stamped.ifBlock[1], g1)
        n1 == [stamped EXCEPT !.ifBlock = <<r1.node>>]
        g2 == label(add(r1.g, InsL("b", ControlLabel("end_", r1.g.controlStatementId)), 0, 0),
                    ControlLabel("else_", r1.g.controlStatementId))
        r2 == IF IsSet(n1.elseBlock)
              THEN internalGenerateCode(n1.elseBlock[1], g2)
              ELSE [node |-> n1, g |-> g2]
        n2 == IF IsSet(n1.elseBlock) THEN [n1 EXCEPT !.elseBlock = <<r2.node>>] ELSE n1
    IN [node |-> n2, g |-> label(r2.g, ControlLabel("end_", r2.g.controlStatementId))]

Visit_if_statement_post(node, g) ==
    LET k == g.controlStatementId + 1
        stamped == [node EXCEPT !.controlStatementId = <<k>>]
        g1 == add([g EXCEPT !.controlStatementId = k],
                  InsL("bz", ControlLabel("else_", stamped.controlStatementId[1])), 0, 1)
        r1 == internalGenerateCode(stamped.ifBlock[1], g1)
        n1 == [stamped EXCEPT !.ifBlock = <<r1.node>>]
        g2 == label(add(r1.g, InsL("b", ControlLabel("end_", n1.controlStatementId[1])), 0, 0),
                    ControlLabel("else_", n1.controlStatementId[1]))
        r2 == IF IsSet(n1.elseBlock)
              THEN internalGenerateCode(n1.elseBlock[1], g2)
              ELSE [node |-> n1, g |-> g2]
        n2 == IF IsSet(n1.elseBlock) THEN [n1 EXCEPT !.elseBlock = <<r2.node>>] ELSE n1
    IN [node |-> n2, g |-> label(r2.g, ControlLabel("end_", n2.controlStatementId[1]))]

Visit_while_statement_pre(node, g) ==
    LET k == g.controlStatementId + 1
        stamped == [node EXCEPT !.controlStatementId = <<k>>]
    IN [ node |-> stamped,
         g |-> label([g EXCEPT !.controlStatementId = k],
                     ControlLabel("loop_start_", stamped.controlStatementId[1])) ]

\* A slip: the post hook names its labels by the generator's counter.
Visit_while_statement_post_counter(node, g) ==
    LET g1 == add(g, InsL("bz", ControlLabel("loop_end_", g.controlStatementId)),
                  0, IF Len(node.children) > 0 THEN 1 ELSE 0)
        r == internalGenerateCode(node.body[1], g1)
        n1 == [node EXCEPT !.body = <<r.node>>]
        g2 == add(r.g, InsL("b", ControlLabel("loop_start_", r.g.controlStatementId)), 0, 0)
    IN [node |-> n1, g |-> label(g2, ControlLabel("loop_end_", r.g.controlStatementId))]

Visit_while_statement_post(node, g) ==
    LET g1 == add(g, InsL("bz", ControlLabel("loop_end_", node.controlStatementId[1])),
                  0, IF Len(node.children) > 0 THEN 1 ELSE 0)
        r == internalGenerateCode(node.body[1], g1)
        n1 == [node EXCEPT !.body = <<r.node>>]
        g2 == add(r.g, InsL("b", ControlLabel("loop_start_", n1.controlStatementId[1])), 0, 0)
    IN [node |-> n1, g |-> label(g2, ControlLabel("loop_end_", n1.controlStatementId[1]))]

\* Handlers of the builtin functions.
EvaluateArgs(node, g) ==
    LET r == GenerateChildren(node.functionArgs, g)
    IN [node |-> [node EXCEPT !.functionArgs = r.nodes], g |-> r.g]

Dummy == <<InsN("int", 0), 1, 0>>

builtins(node, g) ==
    LET n == node.name
        a == EvaluateArgs(node, g)
        With(steps) == [node |-> a.node, g |-> addAll(a.g, steps)]
    IN CASE n = "appGlobalPut" -> With(<< <<Ins("app_global_put"), 0, 2>>, Dummy >>)
         [] n = "appGlobalGet" -> With(<< <<Ins("app_global_get"), 1, 1>> >>)
         [] n = "appGlobalDel" -> With(<< <<Ins("app_global_del"), 0, 1>>, Dummy >>)
         [] n = "appLocalPut" -> With(<< <<Ins("app_local_put"), 0, 2>>, Dummy >>)
         [] n = "appLocalGet" -> With(<< <<Ins("app_local_get"), 1, 2>> >>)
         [] n = "appLocalDel" -> With(<< <<Ins("app_local_del"), 0, 2>>, Dummy >>)
         [] n = "btoi" -> With(<< <<Ins("btoi"), 1, 1>> >>)
         [] n = "itob" -> With(<< <<Ins("itob"), 1, 1>> >>)
         [] n = "exit" -> With(<< <<Ins("return"), 0, 0>> >>)
         [] n = "itxn_begin" ->
                [node |-> node, g |-> addAll(g, << <<Ins("itxn_begin"), 0, 0>>, Dummy >>)]
         [] n = "itxn_field" ->
                IF Len(node.functionArgs) = 0
                THEN [node |-> node, g |-> Throw(g, Err("TypeError", n))]
                ELSE [ node |-> node,
                       g |-> add(g, InsT("itxn_field", unquote(node.functionArgs[1].text)),
                                 0, 1) ]
         [] n = "itxn_submit" ->
                [node |-> node, g |-> addAll(g, << <<Ins("itxn_submit"), 0, 0>>, Dummy >>)]

Visit_function_call_pre(node, g) ==
    IF node.name \notin BuiltinNames THEN EvaluateArgs(node, g)
    ELSE [node |-> node, g |-> g]

Visit_function_call_post(node, g) ==
    IF node.name \in BuiltinNames THEN builtins(node, g)
    ELSE [ node |-> node,
           g |-> add(g, InsL("callsub", FunctionLabel(node.name)), 1,
                     Len(node.functionArgs)) ]

\* visitors[node.nodeType].pre
VisitPre(node, g) ==
    CASE node.nodeType = "expr-statement" -> Visit_expr_statement_pre(node, g)
      [] node.nodeType = "return-statement" -> Visit_return_statement_pre(node, g)
      [] node.nodeType = "declare-variable" -> Visit_declare_variable_pre(node, g)
      [] node.nodeType = "while-statement" -> Visit_while_statement_pre(node, g)
      [] node.nodeType = "function-call" -> Visit_function_call_pre(node, g)
      [] OTHER -> [node |-> node, g |-> g]

\* visitors[node.nodeType].post
VisitPost(node, g) ==
    CASE node.nodeType = "number" -> Visit_number_post(node, g)
      [] node.nodeType = "string-literal" -> Visit_string_literal_post(node, g)
      [] node.nodeType = "operation" -> Visit_operation_post(node, g)
      [] node.nodeType = "expr-statement" -> Visit_expr_statement_post(node, g)
      [] node.nodeType = "return-statement" -> Visit_return_statement_post(node, g)
      [] node.nodeType = "declare-variable" -> Visit_declare_variable_post(node, g)
      [] node.nodeType = "access-variable" -> Visit_access_variable_post(node, g)
      [] node.nodeType = "assignment-statement" -> Visit_assignment_statement_post(node, g)
      [] node.nodeType = "if-statement" -> Visit_if_statement_post(node, g)
      [] node.nodeType = "while-statement" -> Visit_while_statement_post(node, g)
      [] node.nodeType = "function-call" -> Visit_function_call_post(node, g)
      [] OTHER -> [node |-> node, g |-> g]

GenerateChildren(nodes, g) ==
    IF Len(nodes) = 0 \/ Threw(g)
    THEN [nodes |-> nodes, g |-> g]
    ELSE LET r1 == internalGenerateCode(Head(nodes), g)
             r2 == GenerateChildren(Tail(nodes), r1.g)
         IN [nodes |-> <<r1.node>> \o r2.nodes, g |-> r2.g]

internalGenerateCode(node, g) ==
    IF Threw(g) THEN [node |-> node, g |-> g]
    ELSE LET a == VisitPre(node, g)
             c == GenerateChildren(a.node.children, a.g)
             n1 == [a.node EXCEPT !.children = c.nodes]
         IN IF Threw(c.g) THEN [node |-> n1, g |-> c.g]
            ELSE VisitPost(n1, c.g)

----------------------------------------------------------------------------
(* CodeGenerator: the driver.  A function node is named by its path, the   *)
(* child indices leading to it from the root, so that what the generator   *)
(* writes on a node of `functions` is written on the tree.                 *)

RECURSIVE NodeAt(_, _)
NodeAt(node, path) ==
    IF Len(path) = 0 THEN node ELSE NodeAt(node.children[Head(path)], Tail(path))

RECURSIVE ReplaceAt(_, _, _)
ReplaceAt(node, path, new) ==
    IF Len(path) = 0 THEN new
    ELSE [node EXCEPT !.children[Head(path)] = ReplaceAt(@, Tail(path), new)]

RECURSIVE collectFunctions(_, _)
collectFunctions(node, path) ==
    Flatten([i \in 1..Len(node.children) |->
                collectFunctions(node.children[i], Append(path, i))])
    \o (IF node.nodeType = "function-declaration" THEN <<path>> ELSE <<>>)

RECURSIVE StoreParams(_, _, _, _)
\* The loop over functionNode.params.reverse().
StoreParams(g, tbls, scope, params) ==
    IF Len(params) = 0 \/ Threw(g) THEN g
    ELSE LET symbol == get(tbls, scope, Head(params))
         IN IF ~IsSet(symbol)
            THEN Throw(g, Err("TypeError", Head(params)))
            ELSE StoreParams(addAll(g, << <<InsN("int", symbol[1].position), 1, 0>>,
                                          <<InsN("load", 0), 1, 0>>,
                                          <<Ins("+"), 2, 1>>,
                                          <<Ins("stores"), 0, 2>> >>),
                             tbls, scope, Tail(params))

generateFunctionCode(root, path, tbls, g) ==
    LET functionNode == NodeAt(root, path)
        g1 == [g EXCEPT !.curFunction = <<[path |-> path, name |-> functionNode.name]>>]
        g2 == section(section(
                 add(section(label(g1, FunctionLabel(functionNode.name))),
                     InsN("load", 0), 1, 0)))
        g3 == add(g2, InsN("load", 0), 1, 0)
    IN IF ~IsSet(functionNode.scope)
       THEN [ast |-> root, g |-> Throw(g3, Err("TypeError", functionNode.name))]
       ELSE
       LET scope == functionNode.scope[1]
           g4 == section(addAll(g3,
                    << <<InsN("int", getNumSymbols(tbls, scope) + 1), 1, 0>>,
                       <<Ins("-"), 2, 1>>,
                       <<InsN("store", 0), 0, 1>>,
                       <<InsN("load", 0), 1, 0>>,
                       <<Ins("swap"), 2, 2>>,
                       <<Ins("stores"), 0, 2>> >>))
           reversed == IF IsSet(functionNode.params)
                       THEN [functionNode EXCEPT !.params = <<Reverse(@[1])>>]
                       ELSE functionNode
           g5 == IF IsSet(functionNode.params)
                 THEN StoreParams(section(g4), tbls, scope, reversed.params[1])
                 ELSE g4
           r == internalGenerateCode(reversed.body[1], section(g5))
           done == [reversed EXCEPT !.body = <<r.node>>]
           g6 == addAll(label(r.g, CleanupLabel(done.name)),
                    << <<InsN("load", 0), 1, 0>>,
                       <<Ins("loads"), 1, 1>>,
                       <<InsN("store", 0), 0, 1>>,
                       <<Ins("retsub"), 0, 0>> >>)
       IN [ast |-> ReplaceAt(root, path, done), g |-> g6]

RECURSIVE GenerateFunctions(_, _, _, _)
\* The loop over this.functions.
GenerateFunctions(root, paths, tbls, g) ==
    IF Len(paths) = 0 \/ Threw(g) THEN [ast |-> root, g |-> g]
    ELSE LET r == generateFunctionCode(root, Head(paths), tbls, g)
         IN GenerateFunctions(r.ast, Tail(paths), tbls, r.g)

\* A slip in generateCode's second half: the branch over the functions is
\* emitted after them.
generateCode_functions_branchAfter(root, functions, tbls, g) ==
    IF Len(functions) = 0 THEN [ast |-> root, g |-> g]
    ELSE LET f == GenerateFunctions(root, functions, tbls, [g EXCEPT !.inFunction = TRUE])
         IN [ast |-> f.ast, g |-> label(section(add(f.g, InsL("b", ProgramEnd), 0, 0)),
                                        ProgramEnd)]

\* generateCode, after the globals pass: the branch, the functions, program_end.
generateCode_functions(root, functions, tbls, g) ==
    IF Len(functions) = 0 THEN [ast |-> root, g |-> g]
    ELSE LET g2 == [add(g, InsL("b", ProgramEnd), 0, 0) EXCEPT !.inFunction = TRUE]
             f == GenerateFunctions(root, functions, tbls, g2)
         IN [ast |-> f.ast, g |-> label(section(f.g), ProgramEnd)]

generateCode(root, tbls, g) ==
    LET functions == collectFunctions(root, <<>>)
        g0 == [g EXCEPT !.inFunction = FALSE, !.curFunction = <<>>,
                        !.functions = functions]
        g1 == IF Len(functions) > 0
              THEN section(addAll(section(g0),
                      << <<InsN("int", MAX_SCRATCH), 1, 0>>,
                         <<InsN("store", 0), 0, 1>> >>))
              ELSE g0
        r == internalGenerateCode(root, g1)
    IN IF Threw(r.g) THEN [ast |-> r.node, g |-> r.g]
       ELSE generateCode_functions(r.node, functions, tbls, r.g)

----------------------------------------------------------------------------
(* The programs the passes are run on. *)

Cond == Number(1)

FunctionNames == {"f", "g"}

CtlLeaves == { ExprStatement(Number(2)), ReturnStatement(Number(3)) }

RECURSIVE CtlStmts(_)
RECURSIVE CtlSeqs(_)

\* Control statements and leaves of weight exactly w.
CtlStmts(w) ==
    IF w = 1 THEN CtlLeaves
    ELSE { IfStatement(Cond, Block(b), <<>>) : b \in CtlSeqs(w - 1) }
         \cup { WhileStatement(Cond, Block(b)) : b \in CtlSeqs(w - 1) }
         \cup UNION { { IfStatement(Cond, Block(b), <<Block(e)>>) :
                            b \in CtlSeqs(i), e \in CtlSeqs((w - 1) - i) } :
                      i \in 1..(w - 2) }

\* Non-empty statement lists of weight exactly w.
CtlSeqs(w) ==
    UNION { { <<s>> \o rest : s \in CtlStmts(k),
                              rest \in IF k = w THEN {<<>>} ELSE CtlSeqs(w - k) } :
            k \in 1..w }

\* Top-level statements: the above, and function declarations.
CtlTopStmts(w) ==
    CtlStmts(w) \cup
    (IF w = 1 THEN {}
     ELSE { FunctionDeclaration(n, <<>>, Block(b)) :
                n \in FunctionNames, b \in CtlSeqs(w - 1) })

RECURSIVE CtlTopSeqs(_)
CtlTopSeqs(w) ==
    UNION { { <<s>> \o rest : s \in CtlTopStmts(k),
                              rest \in IF k = w THEN {<<>>} ELSE CtlTopSeqs(w - k) } :
            k \in 1..w }

CtlPrograms == { Block(s) : s \in UNION { CtlTopSeqs(w) : w \in 1..MaxCtlWeight } }

\* The declaration/assignment family: declarations of x and y, assignments
\* to x, if and while statements and functions, nested in any way.
SymLeaves ==
    { DeclareVariable("x", <<>>), DeclareVariable("y", <<>>), DeclareConstant("x", <<>>),
      ExprStatement(Assignment(AccessVariable("x"), Number(1))) }

RECURSIVE SymStmts(_)
RECURSIVE SymSeqs(_)

SymStmts(w) ==
    IF w = 1 THEN SymLeaves
    ELSE { IfStatement(Cond, Block(b), <<>>) : b \in SymSeqs(w - 1) }
         \cup { WhileStatement(Cond, Block(b)) : b \in SymSeqs(w - 1) }
         \cup { FunctionDeclaration("f", <<>>, Block(b)) : b \in SymSeqs(w - 1) }
         \cup UNION { { IfStatement(Cond, Block(b), <<Block(e)>>) :
                            b \in SymSeqs(i), e \in SymSeqs((w - 1) - i) } :
                      i \in 1..(w - 2) }

SymSeqs(w) ==
    UNION { { <<s>> \o rest : s \in SymStmts(k),
                              rest \in IF k = w THEN {<<>>} ELSE SymSeqs(w - k) } :
            k \in 1..w }

\* Programs of special shape: an assignment to something that is no
\* variable access, at top level and in a function; and functions with
\* parameters, whose bodies declare them (or do not).
SymSpecial ==
    LET notLvalue == ExprStatement(Assignment(Number(2), Number(1)))
        before == { <<>>, <<DeclareVariable("x", <<>>)>>, <<DeclareConstant("x", <<>>)>>,
                    <<DeclareVariable("y", <<>>)>> }
    IN { Block(pre \o <<notLvalue>>) : pre \in before }
       \cup { Block(pre \o <<FunctionDeclaration("f", <<>>, Block(<<notLvalue>>))>>) :
                pre \in before }
       \cup { Block(pre \o <<FunctionDeclaration("f", ps, Block(b))>>) :
                pre \in before, ps \in {<<"x">>, <<"x", "y">>},
                b \in SymSeqs(2) }

SymPrograms ==
    { Block(s) : s \in UNION { SymSeqs(w) : w \in 1..MaxSymWeight } } \cup SymSpecial

\* The name-use family: uses of x as a statement's expression, as a
\* declaration's initializer and as a call's argument, in blocks of if and
\* while statements and in functions.
UseLeaves ==
    { DeclareVariable("x", <<>>),
      ExprStatement(AccessVariable("x")),
      DeclareVariable("y", <<AccessVariable("x")>>),
      ExprStatement(FunctionCall("f", <<AccessVariable("x")>>)) }

RECURSIVE UseStmts(_)
RECURSIVE UseSeqs(_)

UseStmts(w) ==
    IF w = 1 THEN UseLeaves
    ELSE { IfStatement(Cond, Block(b), <<>>) : b \in UseSeqs(w - 1) }
         \cup { WhileStatement(Cond, Block(b)) : b \in UseSeqs(w - 1) }
         \cup { FunctionDeclaration("f", <<>>, Block(b)) : b \in UseSeqs(w - 1) }
         \cup UNION { { IfStatement(Cond, Block(b), <<Block(e)>>) :
                            b \in UseSeqs(i), e \in UseSeqs((w - 1) - i) } :
                      i \in 1..(w - 2) }

UseSeqs(w) ==
    UNION { { <<s>> \o rest : s \in UseStmts(k),
                              rest \in IF k = w THEN {<<>>} ELSE UseSeqs(w - k) } :
            k \in 1..w }

UsePrograms == { Block(s) : s \in UNION { UseSeqs(w) : w \in 1..MaxUseWeight } }

----------------------------------------------------------------------------
(* The driver: parse (the program is given), resolveSymbols, generateCode. *)

NewEmitter == [lines |-> <<>>, depth |-> 0]

NewCodeGenerator ==
    [controlStatementId |-> 0, functions |-> <<>>, inFunction |-> FALSE, curFunction |-> <<>>]

InitWith(programs) ==
    /\ ast \in programs
    /\ pc = "parsed"
    /\ tables = <<>>
    /\ trace = <<>>
    /\ error = NoError
    /\ emitter = NewEmitter
    /\ codegen = NewCodeGenerator
    /\ output = <<>>

ResolveSymbols ==
    /\ pc = "parsed"
    /\ \E r \in {resolveSymbols(ast, tables)} :
          /\ ast' = r.node
          /\ tables' = r.st.tables
          /\ trace' = r.st.trace
          /\ error' = r.st.error
          /\ pc' = IF Threw(r.st) THEN "resolveFailed" ELSE "resolved"
    /\ UNCHANGED <<emitter, codegen, output>>

GenerateCode ==
    /\ pc = "resolved"
    /\ \E r \in { generateCode(ast, tables,
                    [ lines |-> emitter.lines, depth |-> emitter.depth, error |-> NoError,
                      controlStatementId |-> codegen.controlStatementId,
                      functions |-> codegen.functions,
                      inFunction |-> codegen.inFunction,
                      curFunction |-> codegen.curFunction ]) } :
          /\ ast' = r.ast
          /\ emitter' = [lines |-> r.g.lines, depth |-> r.g.depth]
          /\ codegen' = [ controlStatementId |-> r.g.controlStatementId,
                          functions |-> r.g.functions,
                          inFunction |-> r.g.inFunction,
                          curFunction |-> r.g.curFunction ]
          /\ error' = r.g.error
          /\ pc' = IF Threw(r.g) THEN "generateFailed" ELSE "generated"
    /\ UNCHANGED <<tables, trace, output>>

Next == ResolveSymbols \/ GenerateCode

\* A second resolveSymbols call on the tree the first call annotated.
ResolveSymbolsAgain ==
    /\ pc = "resolved"
    /\ \E r \in {resolveSymbols(ast, tables)} :
          /\ ast' = r.node
          /\ tables' = r.st.tables
          /\ trace' = r.st.trace
          /\ error' = r.st.error
          /\ pc' = IF Threw(r.st) THEN "resolveAgainFailed" ELSE "resolvedAgain"
    /\ UNCHANGED <<emitter, codegen, output>>

\* A second generateCode call on the tree the first call walked, with a new
\* CodeEmitter and a new CodeGenerator.
GenerateCodeAgain ==
    /\ pc = "generated"
    /\ \E r \in { generateCode(ast, tables,
                    [ lines |-> NewEmitter.lines, depth |-> NewEmitter.depth, error |-> NoError,
                      controlStatementId |-> NewCodeGenerator.controlStatementId,
                      functions |-> NewCodeGenerator.functions,
                      inFunction |-> NewCodeGenerator.inFunction,
                      curFunction |-> NewCodeGenerator.curFunction ]) } :
          /\ ast' = r.ast
          /\ emitter' = [lines |-> r.g.lines, depth |-> r.g.depth]
          /\ codegen' = [ controlStatementId |-> r.g.controlStatementId,
                          functions |-> r.g.functions,
                          inFunction |-> r.g.inFunction,
                          curFunction |-> r.g.curFunction ]
          /\ error' = r.g.error
          /\ pc' = IF Threw(r.g) THEN "generateAgainFailed" ELSE "generatedAgain"
    /\ UNCHANGED <<tables, trace, output>>

NextTwice == ResolveSymbols \/ ResolveSymbolsAgain \/ GenerateCode \/ GenerateCodeAgain

InitCtl == InitWith(CtlPrograms)

SpecCtl == InitCtl /\ [][Next]_vars

InitSym == InitWith(SymPrograms)

SpecSym == InitSym /\ [][Next]_vars

SpecTwice == InitSym /\ [][NextTwice]_vars

InitUse == InitWith(UsePrograms)

SpecUse == InitUse /\ [][Next]_vars

----------------------------------------------------------------------------
(* Reading the output and the tree. *)

\* The emitted lines without the cosmetic section lines.
Emitted == SelectSeq(emitter.lines, LAMBDA l : l.kind # "section")

Indices(s, Test(_)) == { i \in 1..Len(s) : Test(s[i]) }

Count(s, line) == Cardinality({ i \in 1..Len(s) : s[i] = line })

\* The only index of line in s (0 when there is none or several).
IndexOf(s, line) ==
    IF Count(s, line) = 1 THEN CHOOSE i \in 1..Len(s) : s[i] = line ELSE 0

\* The elements of a set of numbers in increasing order.
RECURSIVE Sorted(_)
Sorted(S) ==
    IF S = {} THEN <<>>
    ELSE LET m == CHOOSE x \in S : \A y \in S : x <= y
         IN <<m>> \o Sorted(S \ {m})

IsFunctionLabelLine(l) ==
    /\ l.kind = "label"
    /\ l.label[1].sfx = ""
    /\ l.label[1].id = <<>>
    /\ l.label[1].base \in FunctionNames

IsCleanupLabelLine(l) == l.kind = "label" /\ l.label[1].sfx = "-cleanup"

IsCleanupBranch(l) ==
    l.kind = "instruction" /\ l.op = "b" /\ IsSet(l.label) /\ l.label[1].sfx = "-cleanup"

\* What the code generator walks below a node besides its children.
Blocks(node) ==
    node.ifBlock \o node.elseBlock
    \o (IF node.nodeType = "while-statement" THEN node.body ELSE <<>>)

\* The number of lines expected of a statement of the control-flow family:
\* a number one line, an expression statement its value and a pop, a return
\* its value and the return, an if or a while five lines and its blocks.
RECURSIVE CodeSize(_)
CodeSize(node) ==
    LET Sum(nodes) == Len(Flatten([i \in 1..Len(nodes) |->
                                      [j \in 1..CodeSize(nodes[i]) |-> 0]]))
    IN CASE node.nodeType = "number" -> 1
         [] node.nodeType \in {"expr-statement", "return-statement"} ->
                Sum(node.children) + 1
         [] node.nodeType \in {"if-statement", "while-statement"} ->
                Sum(node.children) + 4 + Sum(Blocks(node))
         [] node.nodeType = "function-declaration" -> 0
         [] OTHER -> Sum(node.children)

\* The return statements a walk from node generates code for.
RECURSIVE ReturnCount(_)
ReturnCount(node) ==
    LET Sum(nodes) == Len(Flatten([i \in 1..Len(nodes) |->
                                      [j \in 1..ReturnCount(nodes[i]) |-> 0]]))
    IN (IF node.nodeType = "return-statement" THEN 1 ELSE 0)
       + Sum(node.children) + Sum(Blocks(node))

\* The function nodes of codegen.functions, in order.
FunctionNodes == [i \in 1..Len(codegen.functions) |-> NodeAt(ast, codegen.functions[i])]

\* Where each function's code starts (its label) and ends (its retsub).
FunctionStarts == Sorted(Indices(Emitted, IsFunctionLabelLine))

FunctionEnds == Sorted(Indices(Emitted, LAMBDA l : l = Ins("retsub")))

BranchToEnd == IndexOf(Emitted, InsL("b", ProgramEnd))

OpsAt(s, from, n) == [i \in 1..n |-> s[from + i - 1].op]

Prologue == <<"load", "load", "int", "-", "store", "load", "swap", "stores">>

----------------------------------------------------------------------------
(* C1: when generateCode has collected at least one function, the output   *)
(* starts with the stack-pointer bootstrap `int MAX_SCRATCH`, `store 0`,   *)
(* then holds the code of the globals pass and nothing else, then one      *)
(* `b program_end`, then each function's label, prologue, body and         *)
(* epilogue, one function after the other in collection order, and ends    *)
(* with the only `program_end:` label.                                      *)
C1_Layout ==
    (pc = "generated" /\ Len(codegen.functions) > 0) =>
        LET n == Len(codegen.functions)
            E == Emitted
            b == BranchToEnd
        IN /\ E[1] = InsN("int", MAX_SCRATCH)
           /\ E[2] = InsN("store", 0)
           /\ b = 3 + CodeSize(ast)
           /\ Len(FunctionStarts) = n
           /\ Len(FunctionEnds) = n
           /\ FunctionStarts[1] = b + 1
           /\ \A i \in 1..n :
                /\ E[FunctionStarts[i]] = LabelLine(FunctionLabel(FunctionNodes[i].name))
                /\ OpsAt(E, FunctionStarts[i] + 1, 8) = Prologue
                /\ FunctionEnds[i] = FunctionStarts[i] + 8
                                     + CodeSize(FunctionNodes[i].body[1]) + 5
                /\ E[FunctionEnds[i] - 4] = LabelLine(CleanupLabel(FunctionNodes[i].name))
                /\ i < n => FunctionStarts[i + 1] = FunctionEnds[i] + 1
           /\ FunctionEnds[n] = Len(E) - 1
           /\ Count(emitter.lines, LabelLine(ProgramEnd)) = 1
           /\ emitter.lines[Len(emitter.lines)] = LabelLine(ProgramEnd)

\* Code was generated for global statements and for a function whose body
\* holds a control statement.
C1_Witness ==
    /\ pc = "generated"
    /\ Len(codegen.functions) = 1
    /\ BranchToEnd > 3
    /\ CodeSize(FunctionNodes[1].body[1]) > 2

(* C2: each function's code holds one retsub, its last instruction, right  *)
(* after `f-cleanup:`, `load 0`, `loads`, `store 0`; each return statement *)
(* in the function's body, at any depth, gives one `b f-cleanup` naming    *)
(* that function, and the function's code holds no `return`; each return   *)
(* statement of the global code gives one `return`, and the global code    *)
(* holds no branch to a cleanup label and no retsub.                       *)
C2_SingleEpilogue ==
    pc = "generated" =>
        LET n == Len(codegen.functions)
            E == Emitted
            globalEnd == IF n = 0 THEN Len(E) ELSE BranchToEnd
            InGlobal(Test(_)) == { i \in 1..globalEnd : Test(E[i]) }
        IN /\ Len(FunctionStarts) = n
           /\ Len(FunctionEnds) = n
           /\ \A i \in 1..n :
                LET f == FunctionNodes[i]
                    from == FunctionStarts[i]
                    to == IF i < n THEN FunctionStarts[i + 1] - 1 ELSE Len(E) - 1
                    In(Test(_)) == { j \in from..to : Test(E[j]) }
                IN /\ In(LAMBDA l : l = Ins("retsub")) = {to}
                   /\ SubSeq(E, to - 4, to - 1)
                        = << LabelLine(CleanupLabel(f.name)), InsN("load", 0),
                             Ins("loads"), InsN("store", 0) >>
                   /\ In(IsCleanupLabelLine) = {to - 4}
                   /\ Cardinality(In(IsCleanupBranch)) = ReturnCount(f.body[1])
                   /\ \A j \in In(IsCleanupBranch) : E[j].label[1].base = f.name
                   /\ In(LAMBDA l : l = Ins("return")) = {}
           /\ Cardinality(InGlobal(LAMBDA l : l = Ins("return"))) = ReturnCount(ast)
           /\ InGlobal(IsCleanupBranch) = {}
           /\ InGlobal(LAMBDA l : l = Ins("retsub")) = {}

\* A function whose return sits inside a while or an if, and a global return.
C2_Witness ==
    /\ pc = "generated"
    /\ \E i \in 1..Len(codegen.functions) :
          LET stmt == FunctionNodes[i].body[1].children[1]
          IN /\ stmt.nodeType \in {"if-statement", "while-statement"}
             /\ ReturnCount(stmt) = 1
    /\ ReturnCount(ast) = 1

----------------------------------------------------------------------------
\* The nodes a code generation walks from node: the node, its children, its
\* blocks, a declaration's initializer, a call's arguments and, for a
\* function, its body.
RECURSIVE Walked(_)
Walked(node) ==
    LET below == node.children \o Blocks(node) \o node.initializer \o node.functionArgs
                 \o (IF node.nodeType = "function-declaration" THEN node.body ELSE <<>>)
    IN <<node>> \o Flatten([i \in 1..Len(below) |-> Walked(below[i])])

IsControl(node) == node.nodeType \in {"if-statement", "while-statement"}

ControlNodes(node) == SelectSeq(Walked(node), IsControl)

UsesId(l, k) == IsSet(l.label) /\ l.label[1].id = <<k>>

\* Every line naming the id of a control statement under node lies strictly
\* between the lines from and to.
Encloses(E, from, to, node) ==
    \A m \in Range(ControlNodes(node)) : \A i \in 1..Len(E) :
        UsesId(E[i], m.controlStatementId[1]) => (from < i /\ i < to)

(* C4: each if statement has an id k of its own, and the output holds, in  *)
(* this order and once each: the condition's code, `bz else_k`, the code   *)
(* of the if block, `b end_k`, `else_k:`, the code of the else block if    *)
(* there is one, `end_k:`.  No other line names k.                         *)
C4_IfLabels ==
    pc = "generated" =>
        LET E == Emitted
            C == ControlNodes(ast)
        IN \A c \in 1..Len(C) :
            C[c].nodeType = "if-statement" =>
                LET n == C[c]
                    set == IsSet(n.controlStatementId)
                    k == n.controlStatementId[1]
                    bz == IndexOf(E, InsL("bz", ControlLabel("else_", k)))
                    bEnd == IndexOf(E, InsL("b", ControlLabel("end_", k)))
                    else == IndexOf(E, LabelLine(ControlLabel("else_", k)))
                    end == IndexOf(E, LabelLine(ControlLabel("end_", k)))
                IN /\ set
                   /\ \A d \in 1..Len(C) : d # c => C[d].controlStatementId # <<k>>
                   /\ bz > 1 /\ bEnd > 0 /\ else > 0 /\ end > 0
                   /\ E[bz - 1] = InsN("int", n.children[1].value)
                   /\ bEnd = bz + CodeSize(n.ifBlock[1]) + 1
                   /\ else = bEnd + 1
                   /\ end = else + 1
                            + (IF IsSet(n.elseBlock) THEN CodeSize(n.elseBlock[1]) ELSE 0)
                   /\ Encloses(E, bz, bEnd, n.ifBlock[1])
                   /\ IsSet(n.elseBlock) => Encloses(E, else, end, n.elseBlock[1])
                   /\ Cardinality({ i \in 1..Len(E) : UsesId(E[i], k) }) = 4

\* An if statement with an else block and a control statement nested in one
\* of its blocks, and an if statement without an else block.
C4_Witness ==
    /\ pc = "generated"
    /\ \E n \in Range(ControlNodes(ast)) :
          /\ n.nodeType = "if-statement"
          /\ IsSet(n.elseBlock)
          /\ Len(ControlNodes(n)) > 1
    /\ \E n \in Range(ControlNodes(ast)) :
          n.nodeType = "if-statement" /\ ~IsSet(n.elseBlock)

(* C5: each while statement has an id k of its own, and the output holds,  *)
(* in this order and once each: `loop_start_k:`, the condition's code,     *)
(* `bz loop_end_k`, the body's code, `b loop_start_k`, `loop_end_k:`, also *)
(* when control statements nested in the body were given ids in between.   *)
C5_WhileLabels ==
    pc = "generated" =>
        LET E == Emitted
            C == ControlNodes(ast)
        IN \A c \in 1..Len(C) :
            C[c].nodeType = "while-statement" =>
                LET n == C[c]
                    set == IsSet(n.controlStatementId)
                    k == n.controlStatementId[1]
                    start == IndexOf(E, LabelLine(ControlLabel("loop_start_", k)))
                    bz == IndexOf(E, InsL("bz", ControlLabel("loop_end_", k)))
                    back == IndexOf(E, InsL("b", ControlLabel("loop_start_", k)))
                    end == IndexOf(E, LabelLine(ControlLabel("loop_end_", k)))
                IN /\ set
                   /\ \A d \in 1..Len(C) : d # c => C[d].controlStatementId # <<k>>
                   /\ start > 0 /\ bz > 0 /\ back > 0 /\ end > 0
                   /\ E[start + 1] = InsN("int", n.children[1].value)
                   /\ bz = start + CodeSize(n.children[1]) + 1
                   /\ back = bz + CodeSize(n.body[1]) + 1
                   /\ end = back + 1
                   /\ Encloses(E, bz, back, n.body[1])
                   /\ Cardinality({ i \in 1..Len(E) : UsesId(E[i], k) }) = 4

\* A while statement with a control statement nested in its body, which was
\* given a later id.
C5_Witness ==
    /\ pc = "generated"
    /\ \E n \in Range(ControlNodes(ast)) :
          /\ n.nodeType = "while-statement"
          /\ \E m \in Range(ControlNodes(n.body[1])) :
                m.controlStatementId[1] > n.controlStatementId[1]

(* C6: no label is defined twice in the output of one generateCode: the    *)
(* control ids are 1, 2, ... in minting order, so the control labels are   *)
(* pairwise distinct, and each function's label, each cleanup label and    *)
(* program_end are defined once.                                           *)
C6_LabelsDefinedOnce ==
    pc = "generated" =>
        LET E == Emitted
        IN \A i, j \in 1..Len(E) :
              (i < j /\ E[i].kind = "label" /\ E[j].kind = "label")
                  => E[i].label # E[j].label

----------------------------------------------------------------------------
(* Reading the resolver's work off the tree and off its history. *)

IsDeclare(node) == node.nodeType \in {"declare-variable", "declare-constant"}

\* The declarations written in the scope that node lies in, from node on
\* down, in source order: those among its children and in the blocks of if
\* statements, but not those in the body of a nested function.
RECURSIVE ScopeDecls(_)
ScopeDecls(node) ==
    LET blocks == IF node.nodeType = "if-statement"
                  THEN node.ifBlock \o node.elseBlock ELSE <<>>
    IN Flatten([i \in 1..Len(node.children) |-> ScopeDecls(node.children[i])])
       \o (IF IsDeclare(node) THEN <<node>> ELSE <<>>)
       \o Flatten([i \in 1..Len(blocks) |-> ScopeDecls(blocks[i])])

\* The declarations written in the body of a function, from node on down, in
\* source order: as above, and those in the bodies of while statements.
RECURSIVE BodyDecls(_)
BodyDecls(node) ==
    Flatten([i \in 1..Len(node.children) |-> BodyDecls(node.children[i])])
    \o (IF IsDeclare(node) THEN <<node>> ELSE <<>>)
    \o Flatten([i \in 1..Len(Blocks(node)) |-> BodyDecls(Blocks(node)[i])])

\* The nodes in the order the resolver comes to their handlers: a node's
\* children first, then the node, then what its handler walks.
RECURSIVE ResolveOrder(_)
ResolveOrder(node) ==
    LET after == IF node.nodeType = "function-declaration" THEN node.body
                 ELSE IF node.nodeType = "if-statement"
                 THEN node.ifBlock \o node.elseBlock ELSE <<>>
    IN Flatten([i \in 1..Len(node.children) |-> ResolveOrder(node.children[i])])
       \o <<node>>
       \o Flatten([i \in 1..Len(after) |-> ResolveOrder(after[i])])

\* The function declarations the resolver comes to.
FunctionDeclarations ==
    SelectSeq(ResolveOrder(ast), LAMBDA n : n.nodeType = "function-declaration")

\* The roots of the scopes the resolver opens: the program for the global
\* scope, and the body of each of these functions.
ScopeRoots ==
    <<ast>> \o [i \in 1..Len(FunctionDeclarations) |-> FunctionDeclarations[i].body[1]]

\* The symbol kind a declaration node declares.
KindOf(handler) == IF handler = "declare-constant" THEN "Constant" ELSE "Variable"

\* The declarations that succeeded against table t before step j of the history.
DeclaredIn(t, j) ==
    { i \in 1..(j - 1) :
        /\ trace[i].handler \in {"declare-variable", "declare-constant"}
        /\ trace[i].ok
        /\ trace[i].table = t }

\* The step that declared name n in the nearest scope enclosing t, as it
\* stood before step j: <<i>>, or <<>> when no enclosing scope declares n.
RECURSIVE Nearest(_, _, _)
Nearest(t, n, j) ==
    LET here == { i \in DeclaredIn(t, j) : trace[i].name = n }
    IN IF here # {} THEN <<CHOOSE i \in here : TRUE>>
       ELSE IF IsSet(tables[t].parent) THEN Nearest(tables[t].parent[1], n, j)
       ELSE <<>>

\* The symbol that the declaration of step i made.
SymbolOf(i) ==
    [ name |-> trace[i].name,
      type |-> KindOf(trace[i].handler),
      position |-> Cardinality(DeclaredIn(trace[i].table, i)) + 1,
      isGlobal |-> ~IsSet(tables[trace[i].table].parent) ]

\* The resolve pass ended with this error at the last step of its history.
FailedAt(j, e) ==
    /\ ~trace[j].ok
    /\ trace[j].symbol = <<>>
    /\ j = Len(trace)
    /\ pc = "resolveFailed"
    /\ error = e

----------------------------------------------------------------------------
(* C3: after resolveSymbols has returned, every access-variable node that  *)
(* code generation walks (through children, a function's body, the blocks  *)
(* of an if statement, the body of a while statement, a declaration's      *)
(* initializer, a call's arguments) carries a symbol, and the generator    *)
(* never fails on reading the symbol of such a node.                       *)
C3_EveryUseBound ==
    /\ pc \in {"resolved", "generated", "generateFailed"} =>
          \A n \in Range(Walked(ast)) :
              n.nodeType = "access-variable" => IsSet(n.symbol)
    /\ pc = "generateFailed" => error[1].kind # "TypeError"

----------------------------------------------------------------------------
(* C7: when two declarations (of a variable or a constant, in any          *)
(* combination) of one name are written in one scope (the global scope, or *)
(* the body of one function; the blocks of an if statement belong to the   *)
(* scope around it) the resolve pass does not succeed and the second       *)
(* declaration has no symbol; and when the pass resolves a second          *)
(* declaration of a name against a table, it fails right there with        *)
(* DuplicateDefinition naming that name.                                   *)
C7_DuplicateDefinition ==
    /\ pc # "parsed" =>
          \A r \in 1..Len(ScopeRoots) :
              LET D == ScopeDecls(ScopeRoots[r])
              IN \A i, j \in 1..Len(D) :
                    (i < j /\ D[i].name = D[j].name) =>
                        (pc = "resolveFailed" /\ D[j].symbol = <<>>)
    /\ \A i, j \in 1..Len(trace) :
          ( /\ i < j
            /\ trace[i].handler \in {"declare-variable", "declare-constant"}
            /\ trace[j].handler \in {"declare-variable", "declare-constant"}
            /\ trace[i].name = trace[j].name
            /\ trace[i].table = trace[j].table )
          => FailedAt(j, Err("DuplicateDefinition", trace[j].name))

\* A constant is declared inside an if statement, under the name of a
\* variable declared before the if statement.
C7_Witness ==
    /\ pc = "resolveFailed"
    /\ \E i, k \in 1..Len(trace) :
          LET j == Len(trace)
          IN /\ i < k /\ k < j
             /\ trace[i].handler = "declare-variable" /\ trace[i].ok
             /\ trace[k].handler = "if-statement"
             /\ trace[j].handler = "declare-constant"
             /\ trace[i].name = trace[j].name
             /\ trace[i].table = trace[j].table
             /\ error = Err("DuplicateDefinition", trace[j].name)

----------------------------------------------------------------------------
\* The assignment nodes the resolver comes to, in its order.
AssignmentNodes ==
    SelectSeq(ResolveOrder(ast), LAMBDA n : n.nodeType = "assignment-statement")

\* The steps of the history that handled an assignment, in order.
AssignmentSteps ==
    Sorted({ j \in 1..Len(trace) : trace[j].handler = "assignment-statement" })

(* C8: for an assignment, the resolve pass fails with NotAnLvalue when the *)
(* assignee is no access-variable, with UndeclaredName when no enclosing   *)
(* scope has declared the assignee's name, with AssignToConstant when the  *)
(* nearest enclosing declaration of the name is a constant, and leaves no  *)
(* symbol on the node in these cases; otherwise the node carries the       *)
(* symbol of that nearest declaration, a variable.  So after a successful  *)
(* pass every assignment of the tree carries the symbol of a variable.     *)
C8_AssignmentResolution ==
    /\ pc \in {"resolved", "generated", "generateFailed"} =>
          \A n \in Range(Walked(ast)) :
              n.nodeType = "assignment-statement" =>
                  (IsSet(n.symbol) /\ n.symbol[1].type = "Variable")
    /\ \A j \in 1..Len(trace) :
          trace[j].handler = "assignment-statement" =>
              LET e == trace[j]
                  near == Nearest(e.table, e.name, j)
              IN IF e.assignee # "access-variable"
                 THEN FailedAt(j, Err("NotAnLvalue", ""))
                 ELSE IF ~IsSet(near)
                 THEN FailedAt(j, Err("UndeclaredName", e.name))
                 ELSE IF trace[near[1]].handler = "declare-constant"
                 THEN FailedAt(j, Err("AssignToConstant", e.name))
                 ELSE /\ e.ok
                      /\ e.symbol = <<SymbolOf(near[1])>>
                      /\ e.symbol[1].type = "Variable"
    /\ pc # "parsed" =>
          /\ Len(AssignmentSteps) <= Len(AssignmentNodes)
          /\ \A k \in 1..Len(AssignmentNodes) :
                AssignmentNodes[k].symbol =
                    IF k <= Len(AssignmentSteps)
                    THEN trace[AssignmentSteps[k]].symbol ELSE <<>>

----------------------------------------------------------------------------
(* C9: after a successful resolve, the scope of each function holds one    *)
(* symbol for each declaration written in that function's body (those in   *)
(* the blocks of its statements included), at positions 1, 2, ... in       *)
(* the order of the declarations, whatever the global scope and the other  *)
(* functions hold; and the prologue generated for a function pushes the    *)
(* number of these symbols plus one as the size of its frame.              *)
C9_FunctionFrame ==
    /\ pc \in {"resolved", "generated", "generateFailed"} =>
          \A f \in 1..Len(FunctionDeclarations) :
              LET F == FunctionDeclarations[f]
                  D == BodyDecls(F.body[1])
              IN /\ IsSet(F.scope)
                 /\ getNumSymbols(tables, F.scope[1]) = Len(D)
                 /\ \A i \in 1..Len(D) :
                       /\ D[i].symbol = <<tables[F.scope[1]].symbols[i]>>
                       /\ D[i].symbol[1] =
                             [ name |-> D[i].name, type |-> KindOf(D[i].nodeType),
                               position |-> i, isGlobal |-> FALSE ]
    /\ pc = "generated" =>
          /\ Len(FunctionStarts) = Len(codegen.functions)
          /\ \A i \in 1..Len(codegen.functions) :
                Emitted[FunctionStarts[i] + 3]
                    = InsN("int", Len(BodyDecls(FunctionNodes[i].body[1])) + 1)

----------------------------------------------------------------------------
(* The early compiler: compile and genCode.  A string is kept as the       *)
(* sequence of its pieces; the output array is a sequence of such strings. *)

CRLF == "\r\n"

Pragma == "#pragma version 3"

\* The decimal text of a number, as a template string writes it.
ToText(n) ==
    CASE n = 0 -> "0" [] n = 1 -> "1" [] n = 2 -> "2" [] n = 3 -> "3" [] n = 4 -> "4"
      [] n = 5 -> "5" [] n = 6 -> "6" [] n = 7 -> "7" [] n = 8 -> "8" [] n = 9 -> "9"

\* The nodes the parser of the early compiler builds.
ParsedNode(t) ==
    [ nodeType |-> t, stmtType |-> "", opcode |-> "", value |-> 0, fieldName |-> "",
      argIndex |-> 0, children |-> <<>> ]

Literal(v) == [ParsedNode("literal") EXCEPT !.opcode = "int", !.value = v]

Operator(op, l, r) == [ParsedNode("operator") EXCEPT !.opcode = op, !.children = <<l, r>>]

Txn(f) == [ParsedNode("txn") EXCEPT !.fieldName = f]

Arg(i) == [ParsedNode("arg") EXCEPT !.argIndex = i]

Statement(t, e) == [ParsedNode("statement") EXCEPT !.stmtType = t, !.children = <<e>>]

Script(stmts) == [ParsedNode("block") EXCEPT !.children = stmts]

\* Array.prototype.join
RECURSIVE join(_, _)
join(strings, sep) ==
    IF Len(strings) = 0 THEN <<>>
    ELSE IF Len(strings) = 1 THEN strings[1]
    ELSE strings[1] \o <<sep>> \o join(Tail(strings), sep)

RECURSIVE genCode(_, _)
RECURSIVE genCodeChildren(_, _)

\* A slip: a node's line is pushed before the lines of its children.
genCode_preOrder(node, out) ==
    IF Threw(out) THEN out
    ELSE LET push(line) == genCodeChildren(node.children,
                                           [out EXCEPT !.output = Append(@, line)])
         IN CASE node.nodeType = "operator" -> push(<<node.opcode>>)
              [] node.nodeType = "literal" -> push(<<node.opcode, " ", ToText(node.value)>>)
              [] node.nodeType = "txn" -> push(<<"txn", " ", node.fieldName>>)
              [] node.nodeType = "arg" -> push(<<"arg", " ", ToText(node.argIndex)>>)
              [] node.nodeType = "statement" /\ node.stmtType = "return" ->
                     push(<<"return">>)
              [] OTHER -> genCodeChildren(node.children, out)

\* The loop over node.children.
genCodeChildren(nodes, out) ==
    IF Len(nodes) = 0 \/ Threw(out) THEN out
    ELSE genCodeChildren(Tail(nodes), genCode(Head(nodes), out))

\* out is [output, error]: the output array and the Error thrown, if any.
genCode(node, out) ==
    IF Threw(out) THEN out
    ELSE LET c == genCodeChildren(node.children, out)
             push(line) == [c EXCEPT !.output = Append(@, line)]
         IN IF Threw(c) THEN c
            ELSE CASE node.nodeType = "operator" -> push(<<node.opcode>>)
                   [] node.nodeType = "literal" ->
                          push(<<node.opcode, " ", ToText(node.value)>>)
                   [] node.nodeType = "txn" -> push(<<"txn", " ", node.fieldName>>)
                   [] node.nodeType = "arg" -> push(<<"arg", " ", ToText(node.argIndex)>>)
                   [] node.nodeType = "block" -> c
                   [] node.nodeType = "statement" ->
                          IF node.stmtType = "expr" THEN c
                          ELSE IF node.stmtType = "return" THEN push(<<"return">>)
                          ELSE Throw(c, Err("UnexpectedStatementType", node.stmtType))
                   [] OTHER -> Throw(c, Err("UnexpectedNodeType", node.nodeType))

\* compile, from the parsed AST on: [text, error].
compile(node) ==
    LET r == genCode(node, [output |-> <<>>, error |-> NoError])
    IN [ text |-> IF Threw(r) THEN <<>> ELSE <<Pragma, CRLF>> \o join(r.output, CRLF),
         error |-> r.error ]

\* What the parser gives: expressions of exactly w nodes, statements, scripts.
ParsedLeaves == { Literal(1), Literal(2), Literal(3), Txn("Amount"), Arg(0) }

RECURSIVE ParsedExprs(_)
ParsedExprs(w) ==
    IF w = 1 THEN ParsedLeaves
    ELSE UNION { { Operator("+", l, r) :
                        l \in ParsedExprs(i), r \in ParsedExprs((w - 1) - i) } :
                 i \in 1..(w - 2) }

ParsedStmts(w) ==
    IF w < 2 THEN {}
    ELSE { Statement(t, e) : t \in {"expr", "return"}, e \in ParsedExprs(w - 1) }

RECURSIVE ParsedSeqs(_)
ParsedSeqs(w) ==
    IF w = 0 THEN {<<>>}
    ELSE UNION { { <<s>> \o rest : s \in ParsedStmts(k), rest \in ParsedSeqs(w - k) } :
                 k \in 1..w }

ParsedPrograms == { Script(s) : s \in UNION { ParsedSeqs(w) : w \in 0..MaxOldWeight } }

Compile ==
    /\ pc = "parsed"
    /\ \E r \in {compile(ast)} :
          /\ output' = IF IsSet(r.error) THEN <<>> ELSE <<r.text>>
          /\ error' = r.error
          /\ pc' = IF IsSet(r.error) THEN "compileFailed" ELSE "compiled"
    /\ UNCHANGED <<ast, tables, trace, emitter, codegen>>

InitCompile == InitWith(ParsedPrograms)

SpecCompile == InitCompile /\ [][Compile]_vars

----------------------------------------------------------------------------
(* Reading the text that compile returns. *)

\* The paths of the nodes of a tree.
RECURSIVE Paths(_)
Paths(node) ==
    {<<>>} \cup UNION { { <<i>> \o p : p \in Paths(node.children[i]) } :
                        i \in 1..Len(node.children) }

\* Node p stands below node q.
Below(p, q) == Len(q) < Len(p) /\ SubSeq(p, 1, Len(q)) = q

\* Node p stands to the left of node q: under an earlier child of an
\* ancestor they share.
LeftOf(p, q) ==
    \E k \in 1..Len(p) :
        /\ k <= Len(q)
        /\ SubSeq(p, 1, k - 1) = SubSeq(q, 1, k - 1)
        /\ p[k] < q[k]

\* The line a node contributes of its own: <<line>>, or <<>> for none.
OwnLine(node) ==
    CASE node.nodeType = "operator" -> << <<node.opcode>> >>
      [] node.nodeType = "literal" -> << <<node.opcode, " ", ToText(node.value)>> >>
      [] node.nodeType = "txn" -> << <<"txn", " ", node.fieldName>> >>
      [] node.nodeType = "arg" -> << <<"arg", " ", ToText(node.argIndex)>> >>
      [] node.nodeType = "statement" /\ node.stmtType = "return" -> << <<"return">> >>
      [] OTHER -> <<>>

\* The lines of a text: its pieces between the line breaks.
RECURSIVE SplitLines(_)
SplitLines(text) ==
    IF \A i \in 1..Len(text) : text[i] # CRLF THEN <<text>>
    ELSE LET i == CHOOSE i \in 1..Len(text) :
                     text[i] = CRLF /\ \A j \in 1..(i - 1) : text[j] # CRLF
         IN <<SubSeq(text, 1, i - 1)>> \o SplitLines(SubSeq(text, i + 1, Len(text)))

----------------------------------------------------------------------------
(* Two resolveSymbols calls in a row.  The second call allocates its tables *)
(* after the first call's, so table k of the first call corresponds to      *)
(* table k + n of the second, n being the number of tables the first call   *)
(* made.                                                                    *)

Shifted(ref, n) == IF IsSet(ref) THEN <<ref[1] + n>> ELSE <<>>

\* The tables a second pass added to `before` are a copy of `before`: as
\* many scopes, each with the same symbols and the corresponding parent.
SameScopes(before, after) ==
    LET n == Len(before)
    IN /\ Len(after) = 2 * n
       /\ \A k \in 1..n :
             /\ after[k] = before[k]
             /\ after[n + k].symbols = before[k].symbols
             /\ after[n + k].offset = before[k].offset
             /\ after[n + k].parent = Shifted(before[k].parent, n)

\* Every node carries the same symbol(s) in both trees, and every
\* function-declaration the corresponding scope.
SameAnnotations(first, second, n) ==
    LET a == Walked(first)
        b == Walked(second)
    IN /\ Len(a) = Len(b)
       /\ \A k \in 1..Len(a) :
             /\ b[k].nodeType = a[k].nodeType
             /\ b[k].name = a[k].name
             /\ b[k].symbol = a[k].symbol
             /\ b[k].symbols = a[k].symbols
             /\ b[k].scope = Shifted(a[k].scope, n)

\* C11: resolveSymbols is idempotent.  A second pass over a tree the first
\* pass resolved also succeeds, makes one scope per scope of the first pass
\* (same symbols, parent the scope of the same enclosing context), and
\* leaves every declaration, access and assignment node with a symbol of the
\* same name, kind, position and isGlobal flag.
C11_ResolveIdempotent ==
    [][ (pc = "resolved" /\ pc' \in {"resolvedAgain", "resolveAgainFailed"})
          => /\ pc' = "resolvedAgain"
             /\ error' = NoError
             /\ SameScopes(tables, tables')
             /\ SameAnnotations(ast, ast', Len(tables)) ]_vars

\* A second pass has run over a function that declares a local variable and
\* uses a symbol: two scopes per pass, a local symbol on some node.
C11_Witness ==
    /\ pc = "resolvedAgain"
    /\ Len(tables) = 4
    /\ \E k \in 1..Len(Walked(ast)) :
          LET nd == Walked(ast)[k]
          IN /\ nd.nodeType \in {"access-variable", "assignment-statement"}
             /\ IsSet(nd.symbol)
             /\ ~nd.symbol[1].isGlobal
    /\ \E k \in 1..Len(Walked(ast)) :
          LET nd == Walked(ast)[k]
          IN nd.nodeType = "function-declaration" /\ nd.scope = <<4>>

----------------------------------------------------------------------------
(* The functions of the tree against the functions collected. *)

\* The function-declaration nodes of the whole tree, in source order.
DeclaredFunctions == SelectSeq(Walked(ast), LAMBDA nd : nd.nodeType = "function-declaration")

\* C12: the collection pass appends every function-declaration of the whole
\* tree to `functions`, each exactly once and in source order, wherever it
\* sits, so that each gets exactly one label (with its prologue, body and
\* epilogue) in the output.
C12_EveryFunctionCollected ==
    pc = "generated" =>
        /\ Len(FunctionNodes) = Len(DeclaredFunctions)
        /\ \A i \in 1..Len(FunctionNodes) : FunctionNodes[i].name = DeclaredFunctions[i].name
        /\ Cardinality(Indices(Emitted, IsFunctionLabelLine)) = Len(DeclaredFunctions)

----------------------------------------------------------------------------
(* Calls.  The call family: one expression statement whose expression is a *)
(* call of a builtin or of a user function f with 0..MaxArgs arguments,    *)
(* alone or as the last argument of a call of f.  Arguments are number     *)
(* literals; the first argument of itxn_field is the quoted field name.    *)

MaxArgs == 3

StringLiteral(t) == [Node("string-literal") EXCEPT !.text = t]

FieldName == StringLiteral(<<"\"", "Fee", "\"">>)

CallArgs(n, k) ==
    [i \in 1..k |-> IF n = "itxn_field" /\ i = 1 THEN FieldName ELSE Number(i)]

CallLeaves ==
    { FunctionCall(n, CallArgs(n, k)) : n \in BuiltinNames \cup {"f"}, k \in 0..MaxArgs }

CallExprs == CallLeaves \cup { FunctionCall("f", <<Number(7), c>>) : c \in CallLeaves }

CallPrograms == { Block(<<ExprStatement(e)>>) : e \in CallExprs }

InitCall == InitWith(CallPrograms)

SpecCall == InitCall /\ [][Next]_vars

\* The number of arguments a call of a builtin passes: the values its handler
\* consumes (for itxn_field the field name and the runtime value).
Arity(n) ==
    CASE n \in {"appGlobalPut", "appLocalPut", "appLocalGet", "appLocalDel", "itxn_field"} -> 2
      [] n \in {"appGlobalGet", "appGlobalDel", "btoi", "itob", "exit"} -> 1
      [] OTHER -> 0

CallNodes == SelectSeq(Walked(ast), LAMBDA nd : nd.nodeType = "function-call")

WellCalled ==
    \A i \in 1..Len(CallNodes) :
        CallNodes[i].name \in BuiltinNames =>
            Len(CallNodes[i].functionArgs) = Arity(CallNodes[i].name)

\* C13: a call leaves exactly one value.  For a statement that is a call of a
\* builtin with its arguments, or of a user function (possibly with such a
\* builtin call as an argument), code generation completes without
\* StackUnderflow and the statement's popAll removes exactly one value: the
\* depth after the call is the depth before it (0, after the statement's
\* resetStack) plus one.
C13_CallLeavesOneValue ==
    (pc \in {"generated", "generateFailed"} /\ WellCalled) =>
        /\ pc = "generated"
        /\ Count(Emitted, Ins("pop")) = 1

----------------------------------------------------------------------------
(* The operand stack of the target VM, stepped over the emitted lines. *)

\* The change an instruction makes to the number of values on the VM's
\* operand stack.
RealEffect(l) ==
    IF l.kind # "instruction" THEN 0
    ELSE CASE l.op \in {"int", "byte", "load", "dup", "dig"} -> 1
           [] l.op \in {"+", "-", "store", "pop", "bz", "bnz"} -> -1
           [] l.op = "stores" -> -2
           [] OTHER -> 0   \* loads, swap, b, retsub

\* The number of values on the operand stack after line i, in text order.
\* Every block of an if or a while is a list of statements, so the depth at a
\* label is the depth at the branches to it.  A function starts with the
\* caller's arguments on the stack, one per parameter.
RECURSIVE RealDepth(_)
RealDepth(i) ==
    IF i = 0 THEN 0
    ELSE IF IsFunctionLabelLine(Emitted[i])
         THEN LET k == Cardinality({ j \in 1..i : IsFunctionLabelLine(Emitted[j]) })
                  f == FunctionNodes[k]
              IN IF IsSet(f.params) THEN Len(f.params[1]) ELSE 0
         ELSE RealDepth(i - 1) + RealEffect(Emitted[i])

\* The trees the text-order stepping is exact for: no return statement (the
\* lines after one are reached with a different stack) and no call.
NoReturnNoCall ==
    \A k \in 1..Len(Walked(ast)) :
        Walked(ast)[k].nodeType \notin {"return-statement", "function-call"}

\* C14: the emitter's logical depth agrees with the operand stack.  Every
\* `pop` that popAll emits at the end of a statement removes a value that is
\* on the operand stack, and after the last `pop` of a statement the operand
\* stack is empty: popAll emits exactly as many `pop`s as values the
\* statement left, in global code and inside functions.
C14_PopsMatchRealStack ==
    (pc = "generated" /\ NoReturnNoCall) =>
        \A i \in 1..Len(Emitted) :
            Emitted[i] = Ins("pop") =>
                /\ RealDepth(i) >= 0
                /\ (i = Len(Emitted) \/ Emitted[i + 1] # Ins("pop")) => RealDepth(i) = 0

----------------------------------------------------------------------------
(* Two generateCode calls in a row. *)

\* The parameter lists and the symbol lists of the tree's nodes, in source
\* order.
ParamsAndSymbols(root) ==
    [k \in 1..Len(Walked(root)) |->
        [params |-> Walked(root)[k].params, symbols |-> Walked(root)[k].symbols]]

\* C15: generateCode is repeatable.  A generateCode call leaves every
\* function's `params` and every assignment's `symbols` in their original
\* order, and a second call on the same resolved tree, with a new
\* CodeGenerator and a new CodeEmitter, succeeds and gives the same output
\* lines as the first (parameters stored in reverse declaration order both
\* times).
C15_GenerateRepeatable ==
    [][ /\ (pc = "resolved" /\ pc' = "generated")
            => ParamsAndSymbols(ast') = ParamsAndSymbols(ast)
        /\ (pc = "generated" /\ pc' \in {"generatedAgain", "generateAgainFailed"})
            => /\ pc' = "generatedAgain"
               /\ emitter'.lines = emitter.lines
               /\ ParamsAndSymbols(ast') = ParamsAndSymbols(ast) ]_vars

=============================================================================
